---- MODULE Spec2Model ----
(***************************************************************************)
(* Model of birdland's Bird recommender (src/bird.go): construction        *)
(* (NewBird and its helpers) and the query-seeded random walk (Process,    *)
(* sampleItemsFromQuery, step, sampleItem).                                *)
(*                                                                         *)
(* Go slices are 0-indexed; item and user ids keep their Go values and     *)
(* sequences are read through At(s, i) == s[i + 1].  An index outside a    *)
(* slice is a run-time panic, modelled as the outcome pc = "panic".        *)
(* Random draws are nondeterministic choices over the sampler's support.   *)
(*                                                                         *)
(* SpecNew explores NewBird alone on arbitrary arguments (empty tables,    *)
(* bad cfg, negative and too large indices, negative weights).  Spec       *)
(* explores NewBird followed by one Process call, on arguments with a      *)
(* valid cfg and no empty table or collection, and arbitrary queries.      *)
(***************************************************************************)
EXTENDS Integers, Sequences, FiniteSets, TLC

\* ---------------------------------------------------------------- bounds
\* The size of a run is Depth + Draws + number of items + number of users +
\* number of adjacency entries + number of query entries.
\* Construction is explored for every input up to MaxNewSize (no query).
MaxNewSize == 8
\* Construction followed by one Process call is explored up to MaxWalkSize.
MaxWalkSize == 10

\* weights are small integers standing for float64 values
WeightVals == {-1, 0, 1}

\* the item weights of the runs that go on to call Process
WalkWeightVals == {0, 1}

\* ------------------------------------------------------- generic helpers
At(s, i) == s[i + 1]

InRange(s, i) == i >= 0 /\ i < Len(s)

RECURSIVE SumSeq(_)
SumSeq(s) == IF s = <<>> THEN 0 ELSE Head(s) + SumSeq(Tail(s))

Min(S) == CHOOSE x \in S : \A y \in S : x <= y

SeqElems(s) == {s[k] : k \in 1..Len(s)}

Count(x, s) == Cardinality({k \in 1..Len(s) : s[k] = x})

\* ---------------------------------------------------------------- errors
\* An error is the chain of messages built by errors.New / errors.Wrap
\* (outermost first) plus the values formatted into it.
NoErr == [msgs |-> <<>>, args |-> <<>>]

NewError(m) == [msgs |-> <<m>>, args |-> <<>>]

Errorf(m, a) == [msgs |-> <<m>>, args |-> <<a>>]

Wrap(err, m) == [msgs |-> <<m>> \o err.msgs, args |-> err.args]

\* --------------------------------------------------------------- slices
NilSlice == [isNil |-> TRUE, elems |-> <<>>]

\* mutant: the hop's result overwrites the accumulator instead of extending it
GoAppend_Overwrite(a, s) == [isNil |-> FALSE, elems |-> s]

GoAppend(a, s) ==
    IF a.isNil /\ s = <<>> THEN NilSlice
    ELSE [isNil |-> FALSE, elems |-> a.elems \o s]

\* ------------------------------------------------- sampler.AliasSampler
\* The sampler package is not part of the sources at hand; it is modelled
\* from its documented contract.
NewAliasSampler(weights) ==
    IF Len(weights) = 0
    THEN [err |-> NewError("EmptyDistribution"), weights |-> <<>>]
    ELSE IF (\E k \in 1..Len(weights) : weights[k] < 0) \/ SumSeq(weights) = 0
    THEN [err |-> NewError("InvalidWeight"), weights |-> <<>>]
    ELSE [err |-> NoErr, weights |-> weights]

\* the 0-based indices one draw of the sampler can return
SampleSupport(s) == {k - 1 : k \in {j \in 1..Len(s.weights) : s.weights[j] > 0}}

\* ----------------------------------------------------- validateBirdInputs
RECURSIVE MaxItemOf(_, _)
MaxItemOf(flat, m) ==
    IF flat = <<>> THEN m
    ELSE MaxItemOf(Tail(flat), IF Head(flat) > m THEN Head(flat) ELSE m)

RECURSIVE Flatten(_)
Flatten(u2i) == IF u2i = <<>> THEN <<>> ELSE Head(u2i) \o Flatten(Tail(u2i))

\* mutant: the bound check is off by one (numItems < m)
validateBirdInputs_OffByOne(iw, u2i) ==
    IF Len(iw) = 0 THEN NewError("empty slice of item weights")
    ELSE IF Len(u2i) = 0 THEN NewError("empty users to items adjacency table")
    ELSE IF Len(iw) < MaxItemOf(Flatten(u2i), 0)
    THEN NewError("UsersToItems references more items itemWeights")
    ELSE NoErr

validateBirdInputs(iw, u2i) ==
    IF Len(iw) = 0 THEN NewError("empty slice of item weights")
    ELSE IF Len(u2i) = 0 THEN NewError("empty users to items adjacency table")
    ELSE IF Len(iw) <= MaxItemOf(Flatten(u2i), 0)
    THEN NewError("UsersToItems references more items itemWeights")
    ELSE NoErr

\* -------------------------------------------------- initUserItemsSamplers
\* Result: [panic, err, samplers].  Users are visited in index order; the
\* weights of a collection are looked up (panicking on a bad index) before
\* that user's sampler is built.
RECURSIVE initUserItemsSamplersFrom(_, _, _, _)
initUserItemsSamplersFrom(i, iw, u2i, acc) ==
    IF i > Len(u2i) THEN [panic |-> FALSE, err |-> NoErr, samplers |-> acc]
    ELSE LET userItems == u2i[i]
         IN IF \E j \in 1..Len(userItems) : ~InRange(iw, userItems[j])
            THEN [panic |-> TRUE, err |-> NoErr, samplers |-> <<>>]
            ELSE LET weights == [j \in 1..Len(userItems) |-> At(iw, userItems[j])]
                     s == NewAliasSampler(weights)
                 IN IF s.err # NoErr
                    THEN [panic |-> FALSE,
                          err |-> Wrap(s.err, "could not initialize the probability and alias tables"),
                          samplers |-> <<>>]
                    ELSE initUserItemsSamplersFrom(i + 1, iw, u2i, Append(acc, s))

\* mutant: the loop keeps going after a failure and reports the last one
initUserItemsSamplers_LastError(iw, u2i) ==
    initUserItemsSamplersFrom(1, iw, [k \in 1..Len(u2i) |-> u2i[Len(u2i) + 1 - k]], <<>>)

\* mutant: the error of NewAliasSampler is dropped
initUserItemsSamplers_IgnoreErr(iw, u2i) ==
    IF \E x \in SeqElems(Flatten(u2i)) : ~InRange(iw, x)
    THEN [panic |-> TRUE, err |-> NoErr, samplers |-> <<>>]
    ELSE [panic |-> FALSE, err |-> NoErr,
          samplers |-> [u \in 1..Len(u2i) |->
                           [err |-> NoErr,
                            weights |-> [j \in 1..Len(u2i[u]) |-> At(iw, u2i[u][j])]]]]

initUserItemsSamplers(iw, u2i) == initUserItemsSamplersFrom(1, iw, u2i, <<>>)

\* --------------------------------------------------- permuteAdjacencyList
\* edges: the (uid, iid) pairs in the order the two nested loops visit them
RECURSIVE Edges(_, _)
Edges(u2i, uid) ==
    IF u2i = <<>> THEN <<>>
    ELSE [j \in 1..Len(Head(u2i)) |-> <<uid, Head(u2i)[j]>>] \o Edges(Tail(u2i), uid + 1)

RECURSIVE AppendEdges(_, _)
AppendEdges(i2u, edges) ==
    IF edges = <<>> THEN i2u
    ELSE LET uid == Head(edges)[1]
             iid == Head(edges)[2]
         IN AppendEdges([i2u EXCEPT ![iid + 1] = Append(@, uid)], Tail(edges))

\* mutant: a user is recorded once per item, however often it holds the item
permuteAdjacencyList_Once(numItems, u2i) ==
    [iid \in 1..numItems |->
        SelectSeq([u \in 1..Len(u2i) |-> u - 1],
                  LAMBDA u : (iid - 1) \in SeqElems(At(u2i, u)))]

permuteAdjacencyList(numItems, u2i) ==
    AppendEdges([iid \in 1..numItems |-> <<>>], Edges(u2i, 0))

\* ---------------------------------------------------------------- NewBird
NilBird == [kind |-> "nil", Cfg |-> [Depth |-> 0, Draws |-> 0],
            ItemWeights |-> <<>>, UsersToItems |-> <<>>,
            ItemsToUsers |-> <<>>, UserItemsSamplers |-> <<>>]

\* &Bird{}: the zero value returned next to a validation or sampler error
EmptyBird == [NilBird EXCEPT !.kind = "empty"]

\* Result: [panic, bird, err]
NewBird(c, iw, u2i) ==
    IF c.Depth < 1
    THEN [panic |-> FALSE, bird |-> NilBird,
          err |-> NewError("the depth must be greater than or equal to 1")]
    ELSE IF c.Draws < 1
    THEN [panic |-> FALSE, bird |-> NilBird,
          err |-> NewError("the number of draws must be greater than or equal to 1")]
    ELSE LET verr == validateBirdInputs(iw, u2i)
         IN IF verr # NoErr
            THEN [panic |-> FALSE, bird |-> EmptyBird, err |-> Wrap(verr, "invalid input")]
            ELSE LET r == initUserItemsSamplers(iw, u2i)
                 IN IF r.panic
                    THEN [panic |-> TRUE, bird |-> NilBird, err |-> NoErr]
                    ELSE IF r.err # NoErr
                    THEN [panic |-> FALSE, bird |-> EmptyBird,
                          err |-> Wrap(r.err, "cannot initialize samplers")]
                    ELSE [panic |-> FALSE,
                          bird |-> [kind |-> "ready", Cfg |-> c,
                                    ItemWeights |-> iw, UsersToItems |-> u2i,
                                    ItemsToUsers |-> permuteAdjacencyList(Len(iw), u2i),
                                    UserItemsSamplers |-> r.samplers],
                          err |-> NoErr]

\* ---------------------------------------------------- sampleItemsFromQuery
\* the first loop reads b.ItemWeights[q.Item] for every query entry
queryPanics(bird, q) == \E i \in 1..Len(q) : ~InRange(bird.ItemWeights, q[i].Item)

queryWeights(bird, q) ==
    [i \in 1..Len(q) |-> q[i].Weight * At(bird.ItemWeights, q[i].Item)]

\* the possible values of s.Sample(b.Cfg.Draws), as 0-based query positions
seedSamples(bird, q) ==
    IF queryPanics(bird, q) THEN {<<>>}
    ELSE LET s == NewAliasSampler(queryWeights(bird, q))
         IN IF s.err # NoErr THEN {<<>>}
            ELSE [1..bird.Cfg.Draws -> SampleSupport(s)]

\* mutant: a skipped slot is marked with -1 instead of being left at 0
sampleItemsFromQuery_Sentinel(bird, q, sample) ==
    IF queryPanics(bird, q) THEN [panic |-> TRUE, err |-> NoErr, items |-> <<>>]
    ELSE LET s == NewAliasSampler(queryWeights(bird, q))
         IN IF s.err # NoErr
            THEN [panic |-> FALSE, err |-> Wrap(s.err, "cannot create sampler"),
                  items |-> <<>>]
            ELSE IF \E i \in 1..Len(sample) :
                        ~InRange(bird.ItemsToUsers, At(q, sample[i]).Item)
            THEN [panic |-> TRUE, err |-> NoErr, items |-> <<>>]
            ELSE [panic |-> FALSE, err |-> NoErr,
                  items |-> [i \in 1..bird.Cfg.Draws |->
                               IF Len(At(bird.ItemsToUsers, At(q, sample[i]).Item)) = 0
                               THEN -1
                               ELSE At(q, sample[i]).Item]]

\* Result: [panic, err, items], given the sampler's output
sampleItemsFromQuery(bird, q, sample) ==
    IF queryPanics(bird, q) THEN [panic |-> TRUE, err |-> NoErr, items |-> <<>>]
    ELSE LET s == NewAliasSampler(queryWeights(bird, q))
         IN IF s.err # NoErr
            THEN [panic |-> FALSE, err |-> Wrap(s.err, "cannot create sampler"),
                  items |-> <<>>]
            ELSE IF \E i \in 1..Len(sample) :
                        ~InRange(bird.ItemsToUsers, At(q, sample[i]).Item)
            THEN [panic |-> TRUE, err |-> NoErr, items |-> <<>>]
            ELSE LET sampledItems ==
                         [i \in 1..bird.Cfg.Draws |->
                             IF Len(At(bird.ItemsToUsers, At(q, sample[i]).Item)) = 0
                             THEN 0
                             ELSE At(q, sample[i]).Item]
                 IN IF Len(sampledItems) = 0
                    THEN [panic |-> FALSE,
                          err |-> NewError("no items were sampled,check that the query refers to actual items."),
                          items |-> <<>>]
                    ELSE [panic |-> FALSE, err |-> NoErr, items |-> sampledItems]

\* -------------------------------------------------------------- sampleItem
sampleItemPanics(bird, user) ==
    \/ ~InRange(bird.UserItemsSamplers, user)
    \/ ~InRange(bird.UsersToItems, user)
    \/ \E p \in SampleSupport(At(bird.UserItemsSamplers, user)) :
           ~InRange(At(bird.UsersToItems, user), p)

\* mutant: the sampled position is returned without mapping it through the
\* user's collection
sampleItem_Position(bird, user) == SampleSupport(At(bird.UserItemsSamplers, user))

\* the items one call can return
sampleItem(bird, user) ==
    {At(At(bird.UsersToItems, user), p) :
        p \in SampleSupport(At(bird.UserItemsSamplers, user))}

\* -------------------------------------------------------------------- step
\* position (1-based) of the first input item the referrer loop stops at:
\* an index outside ItemsToUsers or an item nobody interacted with
stepStops(bird, its) ==
    {j \in 1..Len(its) :
        \/ ~InRange(bird.ItemsToUsers, its[j])
        \/ Len(At(bird.ItemsToUsers, its[j])) = 0}

\* the possible outcomes of b.step(its): [panic, err, items, referrers]
step(bird, its) ==
    IF stepStops(bird, its) # {}
    THEN LET j == Min(stepStops(bird, its))
         IN IF ~InRange(bird.ItemsToUsers, its[j])
            THEN {[panic |-> TRUE, err |-> NoErr, items |-> <<>>, referrers |-> <<>>]}
            ELSE {[panic |-> FALSE,
                   err |-> Errorf("cannot perform step: no one has interacted with item %d", its[j]),
                   items |-> <<>>, referrers |-> <<>>]}
    ELSE LET refChoices ==
                 {r \in [1..Len(its) -> UNION {SeqElems(At(bird.ItemsToUsers, its[j])) : j \in 1..Len(its)}] :
                     \A j \in 1..Len(its) : r[j] \in SeqElems(At(bird.ItemsToUsers, its[j]))}
         IN UNION {
              IF \E j \in 1..Len(r) : sampleItemPanics(bird, r[j])
              THEN {[panic |-> TRUE, err |-> NoErr, items |-> <<>>, referrers |-> <<>>]}
              ELSE {[panic |-> FALSE, err |-> NoErr, items |-> n, referrers |-> r] :
                      n \in {m \in [1..Len(r) -> UNION {sampleItem(bird, r[j]) : j \in 1..Len(r)}] :
                               \A j \in 1..Len(r) : m[j] \in sampleItem(bird, r[j])}}
              : r \in refChoices}

\* ------------------------------------------------------------------ state
VARIABLES
    pc,            \* "start", "ready", "newfailed", "loop", "returned", "panic"
    cfg,           \* BirdCfg passed to NewBird
    itemWeights,   \* itemWeights passed to NewBird
    usersToItems,  \* usersToItems passed to NewBird
    b,             \* *Bird returned by NewBird
    newErr,        \* error returned by NewBird
    query,         \* argument of the Process call
    sampled,       \* sampleItemsFromQuery: the output of s.Sample(b.Cfg.Draws)
    seeds,         \* Process: stepItems declared before the depth loop
    d,             \* Process: loop counter
    items,         \* Process: accumulated items
    referrers,     \* Process: accumulated referrers
    hops,          \* arguments and results of the successful step calls so far
    ret            \* what Process returned: [items, referrers, err]

vars == <<pc, cfg, itemWeights, usersToItems, b, newErr, query, sampled, seeds, d,
          items, referrers, hops, ret>>

NoRet == [items |-> NilSlice, referrers |-> NilSlice, err |-> NoErr]

\* cut the flat sequence of adjacency entries into collections of the given lengths
RECURSIVE Split(_, _)
Split(flat, lens) ==
    IF lens = <<>> THEN <<>>
    ELSE <<SubSeq(flat, 1, Head(lens))>>
         \o Split(SubSeq(flat, Head(lens) + 1, Len(flat)), Tail(lens))

InputSize == cfg.Depth + cfg.Draws + Len(itemWeights) + Len(usersToItems)
             + Len(Flatten(usersToItems))

\* the arguments of NewBird: every cfg, itemWeights and usersToItems of size
\* at most maxSize in which Depth, Draws, the number of items, the number of
\* users and the length of every collection are at least `least` and the
\* adjacency entries lie in minItem .. len(itemWeights) - 1 + past, with item
\* weights from weightVals
NewBirdInputs(maxSize, least, minItem, past, weightVals) ==
    \E dp \in least..maxSize, dr \in least..maxSize,
       ni \in least..maxSize, nu \in least..maxSize :
        /\ dp + dr + ni + nu <= maxSize
        /\ cfg = [Depth |-> dp, Draws |-> dr]
        /\ itemWeights \in [1..ni -> weightVals]
        /\ \E lens \in [1..nu -> least..(maxSize - dp - dr - ni - nu)] :
             /\ dp + dr + ni + nu + SumSeq(lens) <= maxSize
             /\ \E flat \in [1..SumSeq(lens) -> minItem..(ni - 1 + past)] :
                    usersToItems = Split(flat, lens)

NoCall ==
    /\ pc = "start"
    /\ b = NilBird
    /\ newErr = NoErr
    /\ query = <<>>
    /\ sampled = <<>>
    /\ seeds = <<>>
    /\ d = 0
    /\ items = NilSlice
    /\ referrers = NilSlice
    /\ hops = <<>>
    /\ ret = NoRet

InitNew == NewBirdInputs(MaxNewSize, 0, -1, 1, WeightVals) /\ NoCall

Init == NewBirdInputs(MaxWalkSize, 1, 0, 1, WalkWeightVals) /\ NoCall

\* NewBird(cfg, itemWeights, usersToItems)
DoNewBird ==
    /\ pc = "start"
    /\ LET r == NewBird(cfg, itemWeights, usersToItems)
       IN /\ pc' = IF r.panic THEN "panic"
                   ELSE IF r.err # NoErr THEN "newfailed" ELSE "ready"
          /\ b' = r.bird
          /\ newErr' = r.err
    /\ UNCHANGED <<cfg, itemWeights, usersToItems, query, sampled, seeds, d, items,
                   referrers, hops, ret>>

\* Process(query), up to the depth loop: the empty-query check and seed
\* selection
ProcessCall ==
    /\ pc = "ready"
    /\ \E n \in 0..(MaxWalkSize - InputSize) :
       \E q \in [1..n -> [Item : -1..Len(b.ItemWeights), Weight : WeightVals]] :
         /\ query' = q
         /\ IF Len(q) = 0
            THEN /\ pc' = "returned"
                 /\ ret' = [items |-> NilSlice, referrers |-> NilSlice,
                            err |-> NewError("empty query")]
                 /\ UNCHANGED <<seeds, sampled>>
            ELSE \E sample \in seedSamples(b, q) :
                   LET r == sampleItemsFromQuery(b, q, sample)
                   IN /\ sampled' = sample
                      /\ IF r.panic
                         THEN /\ pc' = "panic"
                              /\ UNCHANGED <<seeds, ret>>
                         ELSE IF r.err # NoErr
                         THEN /\ pc' = "returned"
                              /\ ret' = [items |-> NilSlice, referrers |-> NilSlice,
                                         err |-> Wrap(r.err, "cannot sample items")]
                              /\ UNCHANGED seeds
                         ELSE /\ pc' = "loop"
                              /\ seeds' = r.items
                              /\ UNCHANGED ret
    /\ d' = 0
    /\ items' = NilSlice
    /\ referrers' = NilSlice
    /\ UNCHANGED <<cfg, itemWeights, usersToItems, b, newErr, hops>>

\* one iteration of the depth loop.  The loop body declares new stepItems,
\* stepReferrers and err with :=, so the call b.step(stepItems) reads the
\* stepItems declared before the loop (seeds) on every iteration.
ProcessHop ==
    /\ pc = "loop"
    /\ d < b.Cfg.Depth
    /\ \E r \in step(b, seeds) :
         IF r.panic
         THEN /\ pc' = "panic"
              /\ UNCHANGED <<d, items, referrers, hops, ret>>
         ELSE IF r.err # NoErr
         THEN /\ pc' = "returned"
              /\ ret' = [items |-> NilSlice, referrers |-> NilSlice,
                         err |-> Wrap(r.err, "cannot step through items")]
              /\ UNCHANGED <<d, items, referrers, hops>>
         ELSE /\ items' = GoAppend(items, r.items)
              /\ referrers' = GoAppend(referrers, r.referrers)
              /\ hops' = Append(hops, [in |-> seeds, items |-> r.items,
                                       referrers |-> r.referrers])
              /\ d' = d + 1
              /\ UNCHANGED <<pc, ret>>
    /\ UNCHANGED <<cfg, itemWeights, usersToItems, b, newErr, query, seeds, sampled>>

\* the loop has run Depth times: return items, referrers, nil
ProcessReturn ==
    /\ pc = "loop"
    /\ d >= b.Cfg.Depth
    /\ pc' = "returned"
    /\ ret' = [items |-> items, referrers |-> referrers, err |-> NoErr]
    /\ UNCHANGED <<cfg, itemWeights, usersToItems, b, newErr, query, seeds,
                   sampled, d, items, referrers, hops>>

Next == DoNewBird \/ ProcessCall \/ ProcessHop \/ ProcessReturn

Spec == Init /\ [][Next]_vars

NextNew == DoNewBird

SpecNew == InitNew /\ [][NextNew]_vars

\* ================================================================ claims
Ready == b.kind = "ready"

NumItems == Len(b.ItemWeights)

NumUsers == Len(b.UsersToItems)

CfgOk == cfg.Depth >= 1 /\ cfg.Draws >= 1

AdjacencyIndices == UNION {SeqElems(usersToItems[u]) : u \in 1..Len(usersToItems)}

\* C1: when Process returns, it returns either an error with both sequences
\* nil, or no error and two sequences of length exactly Depth * Draws each.
C1_CompleteOrError ==
    pc = "returned" =>
        \/ /\ ret.err # NoErr
           /\ ret.items = NilSlice
           /\ ret.referrers = NilSlice
        \/ /\ ret.err = NoErr
           /\ ~ret.items.isNil
           /\ ~ret.referrers.isNil
           /\ Len(ret.items.elems) = b.Cfg.Depth * b.Cfg.Draws
           /\ Len(ret.referrers.elems) = b.Cfg.Depth * b.Cfg.Draws

C1_Witness ==
    /\ pc = "returned"
    /\ ret.err = NoErr
    /\ b.Cfg.Depth = 2
    /\ b.Cfg.Draws = 2
    /\ Len(ret.items.elems) = 4

\* C2: hops are chained: the input of hop h is the output of hop h-1, and the
\* referrer chosen at position j of hop h holds the item returned at position
\* j of hop h-1.
C2_HopsChained ==
    \A h \in 2..Len(hops) :
        /\ hops[h].in = hops[h - 1].items
        /\ \A j \in 1..Len(hops[h].referrers) :
               hops[h - 1].items[j] \in
                   SeqElems(At(b.UsersToItems, hops[h].referrers[j]))

\* C3: every seed handed to the first hop is an item of the query with a
\* non-empty reverse-adjacency list.
C3_SeedsValid ==
    pc = "loop" =>
        \A j \in 1..Len(seeds) :
            /\ \E i \in 1..Len(query) : query[i].Item = seeds[j]
            /\ InRange(b.ItemsToUsers, seeds[j])
            /\ Len(At(b.ItemsToUsers, seeds[j])) > 0

AllSampledInvalid ==
    /\ sampled # <<>>
    /\ \A i \in 1..Len(sampled) :
           Len(At(b.ItemsToUsers, At(query, sampled[i]).Item)) = 0

\* C4: when every sampled query item has an empty reverse-adjacency list,
\* Process returns the "no items were sampled" error, performs no hop and
\* returns no sequences.
C4_NoValidSeeds ==
    (pc \in {"loop", "returned"} /\ AllSampledInvalid) =>
        /\ pc = "returned"
        /\ ret.err = Wrap(NewError("no items were sampled,check that the query refers to actual items."),
                          "cannot sample items")
        /\ ret.items = NilSlice
        /\ ret.referrers = NilSlice
        /\ hops = <<>>

\* C5: in a constructed Bird, ItemsToUsers has one list per item index and is
\* the inverse of UsersToItems with multiplicity.
C5_ReverseIsInverse ==
    Ready =>
        /\ Len(b.ItemsToUsers) = Len(itemWeights)
        /\ \A i \in 0..(NumItems - 1) :
               /\ SeqElems(At(b.ItemsToUsers, i)) \subseteq 0..(NumUsers - 1)
               /\ \A u \in 0..(NumUsers - 1) :
                      Count(u, At(b.ItemsToUsers, i)) = Count(i, At(usersToItems, u))

C5_Witness ==
    /\ Ready
    /\ \E i \in 0..(NumItems - 1) : At(b.ItemsToUsers, i) = <<>>
    /\ \E i \in 0..(NumItems - 1), u \in 0..(NumUsers - 1) :
           Count(i, At(usersToItems, u)) = 2

InvalidNewBirdInput ==
    \/ cfg.Depth < 1
    \/ cfg.Draws < 1
    \/ Len(itemWeights) = 0
    \/ Len(usersToItems) = 0
    \/ \E x \in AdjacencyIndices : x >= Len(itemWeights)

\* C6: NewBird returns an error and no ready Bird when Depth < 1, Draws < 1,
\* itemWeights or usersToItems is empty, or an adjacency index is
\* >= len(itemWeights); the index check comes before any use of the indices.
C6_NewBirdRejects ==
    (pc # "start" /\ InvalidNewBirdInput) =>
        /\ pc = "newfailed"
        /\ newErr # NoErr
        /\ ~Ready
        /\ (CfgOk /\ Len(itemWeights) > 0 /\ Len(usersToItems) > 0) =>
               newErr = Wrap(NewError("UsersToItems references more items itemWeights"),
                             "invalid input")

C6_Witness ==
    /\ pc = "newfailed"
    /\ CfgOk
    /\ Len(itemWeights) > 0
    /\ \E x \in AdjacencyIndices : x >= Len(itemWeights)
    /\ \E x \in AdjacencyIndices : x < 0
    /\ \E u \in 1..Len(usersToItems) : usersToItems[u] = <<>>

\* users (0-based) whose sampler cannot be built
CollWeights(u) ==
    [j \in 1..Len(At(usersToItems, u)) |-> At(itemWeights, At(usersToItems, u)[j])]

FailingUsers ==
    {u \in 0..(Len(usersToItems) - 1) :
        /\ \A x \in SeqElems(At(usersToItems, u)) : InRange(itemWeights, x)
        /\ NewAliasSampler(CollWeights(u)).err # NoErr}

SamplerInitFails ==
    /\ pc \notin {"start", "panic"}
    /\ CfgOk
    /\ validateBirdInputs(itemWeights, usersToItems) = NoErr
    /\ FailingUsers # {}

FirstFailingCause == NewAliasSampler(CollWeights(Min(FailingUsers))).err

\* C7 as stated: the error of a failed sampler construction wraps the root
\* cause and carries the index of the first user whose sampler cannot be built.
C7_ErrorCarriesUser ==
    SamplerInitFails =>
        /\ pc = "newfailed"
        /\ newErr.msgs = <<"cannot initialize samplers",
                           "could not initialize the probability and alias tables">>
                         \o FirstFailingCause.msgs
        /\ Min(FailingUsers) \in SeqElems(newErr.args)

\* C7 amended: the error wraps the root cause of the first user, in index
\* order, whose sampler cannot be built, and carries no user index.
C7_ErrorWrapsFirstCause ==
    SamplerInitFails =>
        /\ pc = "newfailed"
        /\ newErr.msgs = <<"cannot initialize samplers",
                           "could not initialize the probability and alias tables">>
                         \o FirstFailingCause.msgs
        /\ newErr.args = <<>>

C7_Witness ==
    /\ SamplerInitFails
    /\ \E u, v \in FailingUsers :
           /\ u < v
           /\ NewAliasSampler(CollWeights(u)).err # NewAliasSampler(CollWeights(v)).err

QueryItemsOf(q) == {q[i].Item : i \in 1..Len(q)}

Holders(i) == {u \in 0..(NumUsers - 1) : i \in SeqElems(At(b.UsersToItems, u))}

\* C8: every successful hop follows edges position by position, in input
\* order; if the only query item is held by exactly one user u, every
\* first-hop referrer is u and every first-hop item is in u's collection.
C8_HopFollowsEdges ==
    /\ \A h \in 1..Len(hops) :
           /\ Len(hops[h].referrers) = Len(hops[h].in)
           /\ Len(hops[h].items) = Len(hops[h].in)
           /\ \A j \in 1..Len(hops[h].in) :
                  /\ hops[h].referrers[j] \in SeqElems(At(b.ItemsToUsers, hops[h].in[j]))
                  /\ hops[h].in[j] \in SeqElems(At(b.UsersToItems, hops[h].referrers[j]))
                  /\ hops[h].items[j] \in SeqElems(At(b.UsersToItems, hops[h].referrers[j]))
    /\ (Len(hops) >= 1 /\ Cardinality(QueryItemsOf(query)) = 1) =>
           \A i \in QueryItemsOf(query), u \in 0..(NumUsers - 1) :
               Holders(i) = {u} =>
                   \A j \in 1..Len(hops[1].in) :
                       /\ hops[1].referrers[j] = u
                       /\ hops[1].items[j] \in SeqElems(At(b.UsersToItems, u))

C8_Witness ==
    /\ Len(hops) >= 1
    /\ Len(hops[1].in) = 2
    /\ NumUsers = 2
    /\ Cardinality(QueryItemsOf(query)) = 1
    /\ \E i \in QueryItemsOf(query) : Cardinality(Holders(i)) = 1

\* C9: every Bird NewBird returns without error has only users with a
\* non-empty collection whose weights do not sum to zero; an input with an
\* empty or all-zero-weight collection makes NewBird fail.
C9_SamplersBuilt ==
    /\ Ready =>
           \A u \in 0..(NumUsers - 1) :
               /\ Len(At(b.UsersToItems, u)) > 0
               /\ SumSeq([j \in 1..Len(At(b.UsersToItems, u)) |->
                             At(b.ItemWeights, At(b.UsersToItems, u)[j])]) # 0
    /\ (pc \notin {"start", "panic"} /\ FailingUsers # {}) =>
           /\ pc = "newfailed"
           /\ newErr # NoErr
           /\ ~Ready

C9_Witness ==
    /\ pc = "newfailed"
    /\ newErr.msgs[1] = "cannot initialize samplers"
    /\ \E u \in FailingUsers : Len(At(usersToItems, u)) > 0

QueryInRange == query # <<>> /\ \A i \in 1..Len(query) : InRange(b.ItemWeights, query[i].Item)

\* C10: a constructed Bird has all adjacency indices in [0, numItems), and
\* for a non-empty query with all item indices in [0, numItems) no step of
\* Process indexes out of range: seeds and returned items are in
\* [0, numItems) and referrers in [0, numUsers).
C10_NoOutOfRange ==
    /\ Ready => \A x \in AdjacencyIndices : x >= 0 /\ x < NumItems
    /\ (Ready /\ QueryInRange) =>
           /\ pc # "panic"
           /\ \A j \in 1..Len(seeds) : InRange(b.ItemWeights, seeds[j])
           /\ \A h \in 1..Len(hops) : \A j \in 1..Len(hops[h].in) :
                  /\ InRange(b.UsersToItems, hops[h].referrers[j])
                  /\ InRange(b.ItemWeights, hops[h].items[j])
           /\ \A j \in 1..Len(ret.items.elems) : InRange(b.ItemWeights, ret.items.elems[j])
           /\ \A j \in 1..Len(ret.referrers.elems) :
                  InRange(b.UsersToItems, ret.referrers.elems[j])

C10_Witness ==
    /\ Ready
    /\ QueryInRange
    /\ pc = "returned"
    /\ ret.err = NoErr
    /\ b.Cfg.Depth = 2
    /\ \E i \in 1..Len(sampled) :
           Len(At(b.ItemsToUsers, At(query, sampled[i]).Item)) = 0

====
